---- MODULE Spec2Model ----
(***************************************************************************)
(* Model of src/finders/data_finders.py: the path validator, the three     *)
(* dataset path resolvers and the dispatch wrapper, run against a          *)
(* filesystem that only the environment changes.                           *)
(*                                                                         *)
(* A path is the sequence of its components; a dataset name is the         *)
(* sequence of its characters.  Every Python function is an operator from  *)
(* the execution state [fs, log, checked] to its result and the execution  *)
(* state it leaves behind.                                                 *)
(***************************************************************************)
EXTENDS Integers, Sequences, FiniteSets, TLC

VARIABLES fs, call, outcome, log, checked

vars == <<fs, call, outcome, log, checked>>

(***************************************************************************)
(* Bounds of the model.                                                    *)
(***************************************************************************)
\* how many dataset directories of the examined project may hold entries
MaxPopulated == 1

(***************************************************************************)
(* Paths.                                                                  *)
(***************************************************************************)
Join(path, name) == Append(path, name)

Parent(path) == SubSeq(path, 1, Len(path) - 1)

\* the project whose layout the environment changes
Proj == <<"proj">>

\* a second project whose layout is complete and stays so
Alt == <<"alt">>

ProjectDirs == {Proj, Alt}

ChinaLeaves(root) ==
    LET d == Join(Join(root, "data"), "china_12_lead")
    IN  {Join(d, "records"), Join(d, "metadata.csv"), Join(d, "code.csv")}

PtbLeaves(root) ==
    LET d == Join(Join(root, "data"), "ptb_xl")
    IN  {Join(d, "records100"), Join(d, "records500"),
         Join(d, "ptbxl_database.csv"), Join(d, "scp_statements.csv")}

MitLeaves(root) ==
    LET d == Join(Join(root, "data"), "mit_bih")
    IN  {Join(d, "x_mitdb"), Join(Join(d, "x_mitdb"), "100.dat"), Join(d, "stray")}

DatasetDirs(root) ==
    LET d == Join(root, "data")
    IN  {Join(d, "china_12_lead"), Join(d, "ptb_xl"), Join(d, "mit_bih")}

TreePaths(root) ==
    {root, Join(root, "data")} \cup DatasetDirs(root)
        \cup ChinaLeaves(root) \cup PtbLeaves(root) \cup MitLeaves(root)

AllPaths == TreePaths(Proj) \cup TreePaths(Alt)

(***************************************************************************)
(* The filesystem: the kind of every tracked path.                         *)
(***************************************************************************)
Kinds == {"absent", "file", "dir", "other"}

KindOf(f, path) == IF path \in DOMAIN f THEN f[path] ELSE "absent"

\* Path.exists(), Path.is_dir(), Path.is_file()
exists(f, path) == KindOf(f, path) # "absent"

is_dir(f, path) == KindOf(f, path) = "dir"

is_file(f, path) == KindOf(f, path) = "file"

\* glob as it would be if it kept regular files only
glob_files_only(f, dir) ==
    {p \in DOMAIN f : Len(p) > 0 /\ Parent(p) = dir /\ f[p] = "file"}

\* glob as it would be if it kept directories only
glob_dirs_only(f, dir) ==
    {p \in DOMAIN f : Len(p) > 0 /\ Parent(p) = dir /\ f[p] = "dir"}

\* Path.glob("*"): the entries of a directory, whatever their kind or name
glob(f, dir) ==
    {p \in DOMAIN f : Len(p) > 0 /\ Parent(p) = dir /\ f[p] # "absent"}

\* a layout in which all three datasets are complete
FullLayout(root) ==
    LET d  == Join(root, "data")
        files == {Join(Join(d, "china_12_lead"), "metadata.csv"),
                  Join(Join(d, "china_12_lead"), "code.csv"),
                  Join(Join(d, "ptb_xl"), "ptbxl_database.csv"),
                  Join(Join(d, "ptb_xl"), "scp_statements.csv"),
                  Join(Join(Join(d, "mit_bih"), "x_mitdb"), "100.dat")}
    IN  [p \in TreePaths(root) |->
            IF p \in files THEN "file"
            ELSE IF p = Join(Join(d, "mit_bih"), "stray") THEN "absent"
            ELSE "dir"]

EmptyLayout(root) == [p \in TreePaths(root) |-> "absent"]

\* every existing entry lies in an existing directory
WellFormed(f) ==
    \A p \in DOMAIN f :
        (Len(p) > 1 /\ f[p] # "absent") => KindOf(f, Parent(p)) = "dir"

Populated(f) == {d \in DatasetDirs(Proj) : glob(f, d) # {}}

(***************************************************************************)
(* Execution state of one call, logging.                                   *)
(***************************************************************************)
Start(f) == [fs |-> f, log |-> <<>>, checked |-> <<>>]

\* logging.error / logging.warning / logging.info
Logged(st, level, by, msg, about) ==
    [st EXCEPT !.log =
        Append(@, [level |-> level, by |-> by, msg |-> msg, about |-> about])]

\* a log line that also carries a count
LoggedCount(st, level, by, msg, about, n) ==
    Logged(st, level, by, Append(msg, ToString(n)), about)

Touched(st, op, path) ==
    [st EXCEPT !.checked = Append(@, [op |-> op, path |-> path])]

Return(st, value) ==
    [st |-> st,
     outcome |-> [kind |-> "return", value |-> value,
                  exc |-> "", msg |-> "", about |-> <<>>]]

Raise(st, exc, msg, about) ==
    [st |-> st,
     outcome |-> [kind |-> "raise", value |-> <<>>,
                  exc |-> exc, msg |-> msg, about |-> about]]

\* the value of K at x, with x evaluated once (a local variable of the code)
Bind(x, K(_)) == CHOOSE y \in {K(v) : v \in {x}} : TRUE

(***************************************************************************)
(* validate_path_exists                                                    *)
(***************************************************************************)
\* the validator as it would be if it checked existence only
validate_path_exists_any_kind(st0, path, isdir, path_name) ==
    Bind(Touched(st0, "validate", path), LAMBDA st :
        IF ~exists(st.fs, path)
        THEN [ok |-> FALSE,
              st |-> Logged(st, "ERROR", "validate_path_exists",
                            <<path_name, "does not exist">>, <<path>>)]
        ELSE [ok |-> TRUE, st |-> st])

\* the validator as it would be if it created a missing directory
validate_path_exists_mkdir(st0, path, isdir, path_name) ==
    Bind(Touched(st0, "validate", path), LAMBDA st :
        IF ~exists(st.fs, path)
        THEN [ok |-> FALSE,
              st |-> Logged([st EXCEPT !.fs =
                                IF isdir /\ path \in DOMAIN st.fs
                                THEN [st.fs EXCEPT ![path] = "dir"]
                                ELSE st.fs],
                            "ERROR", "validate_path_exists",
                            <<path_name, "does not exist">>, <<path>>)]
        ELSE IF isdir /\ ~is_dir(st.fs, path)
        THEN [ok |-> FALSE,
              st |-> Logged(st, "ERROR", "validate_path_exists",
                            <<path_name, "is not a directory">>, <<path>>)]
        ELSE IF ~isdir /\ ~is_file(st.fs, path)
        THEN [ok |-> FALSE,
              st |-> Logged(st, "ERROR", "validate_path_exists",
                            <<path_name, "is not a file">>, <<path>>)]
        ELSE [ok |-> TRUE, st |-> st])

validate_path_exists(st0, path, isdir, path_name) ==
    Bind(Touched(st0, "validate", path), LAMBDA st :
        IF ~exists(st.fs, path)
        THEN [ok |-> FALSE,
              st |-> Logged(st, "ERROR", "validate_path_exists",
                            <<path_name, "does not exist">>, <<path>>)]
        ELSE IF isdir /\ ~is_dir(st.fs, path)
        THEN [ok |-> FALSE,
              st |-> Logged(st, "ERROR", "validate_path_exists",
                            <<path_name, "is not a directory">>, <<path>>)]
        ELSE IF ~isdir /\ ~is_file(st.fs, path)
        THEN [ok |-> FALSE,
              st |-> Logged(st, "ERROR", "validate_path_exists",
                            <<path_name, "is not a file">>, <<path>>)]
        ELSE [ok |-> TRUE, st |-> st])

FNF == "FileNotFoundError"

(***************************************************************************)
(* find_csv_dir_files_china                                                *)
(***************************************************************************)
\* the resolver as it would be if it did not validate code.csv
find_csv_dir_files_china_no_code(st0, project_dir) ==
    LET data_dir      == Join(project_dir, "data")
        dataset_dir   == Join(data_dir, "china_12_lead")
        records_dir   == Join(dataset_dir, "records")
        metadata_file == Join(dataset_dir, "metadata.csv")
        code_file     == Join(dataset_dir, "code.csv")
    IN
    Bind(validate_path_exists(st0, project_dir, TRUE, "Project directory"), LAMBDA v1 :
    IF ~v1.ok THEN Raise(v1.st, FNF, "Project directory not found", <<project_dir>>) ELSE
    Bind(validate_path_exists(v1.st, data_dir, TRUE, "Data directory"), LAMBDA v2 :
    IF ~v2.ok THEN Raise(v2.st, FNF, "Data directory not found", <<data_dir>>) ELSE
    Bind(validate_path_exists(v2.st, dataset_dir, TRUE, "Dataset directory"), LAMBDA v3 :
    IF ~v3.ok THEN Raise(v3.st, FNF, "Dataset directory not found", <<dataset_dir>>) ELSE
    Bind(validate_path_exists(v3.st, records_dir, TRUE, "Records directory"), LAMBDA v4 :
    IF ~v4.ok THEN Raise(v4.st, FNF, "Records directory not found", <<records_dir>>) ELSE
    Bind(validate_path_exists(v4.st, metadata_file, FALSE, "Metadata file"), LAMBDA v5 :
    IF ~v5.ok THEN Raise(v5.st, FNF, "Metadata file not found", <<metadata_file>>) ELSE
    Return(Logged(v5.st, "INFO", "find_csv_dir_files_china",
                  <<"Successfully validated all paths">>, <<>>),
           <<records_dir, metadata_file, code_file>>))))))

\* the resolver as it would be if it validated metadata.csv before records/
find_csv_dir_files_china_reordered(st0, project_dir) ==
    LET data_dir      == Join(project_dir, "data")
        dataset_dir   == Join(data_dir, "china_12_lead")
        records_dir   == Join(dataset_dir, "records")
        metadata_file == Join(dataset_dir, "metadata.csv")
        code_file     == Join(dataset_dir, "code.csv")
    IN
    Bind(validate_path_exists(st0, project_dir, TRUE, "Project directory"), LAMBDA v1 :
    IF ~v1.ok THEN Raise(v1.st, FNF, "Project directory not found", <<project_dir>>) ELSE
    Bind(validate_path_exists(v1.st, data_dir, TRUE, "Data directory"), LAMBDA v2 :
    IF ~v2.ok THEN Raise(v2.st, FNF, "Data directory not found", <<data_dir>>) ELSE
    Bind(validate_path_exists(v2.st, dataset_dir, TRUE, "Dataset directory"), LAMBDA v3 :
    IF ~v3.ok THEN Raise(v3.st, FNF, "Dataset directory not found", <<dataset_dir>>) ELSE
    Bind(validate_path_exists(v3.st, metadata_file, FALSE, "Metadata file"), LAMBDA v4 :
    IF ~v4.ok THEN Raise(v4.st, FNF, "Metadata file not found", <<metadata_file>>) ELSE
    Bind(validate_path_exists(v4.st, records_dir, TRUE, "Records directory"), LAMBDA v5 :
    IF ~v5.ok THEN Raise(v5.st, FNF, "Records directory not found", <<records_dir>>) ELSE
    Bind(validate_path_exists(v5.st, code_file, FALSE, "Code file"), LAMBDA v6 :
    IF ~v6.ok THEN Raise(v6.st, FNF, "Code file not found", <<code_file>>) ELSE
    Return(Logged(v6.st, "INFO", "find_csv_dir_files_china",
                  <<"Successfully validated all paths">>, <<>>),
           <<records_dir, metadata_file, code_file>>)))))))

find_csv_dir_files_china(st0, project_dir) ==
    LET data_dir      == Join(project_dir, "data")
        dataset_dir   == Join(data_dir, "china_12_lead")
        records_dir   == Join(dataset_dir, "records")
        metadata_file == Join(dataset_dir, "metadata.csv")
        code_file     == Join(dataset_dir, "code.csv")
    IN
    Bind(validate_path_exists(st0, project_dir, TRUE, "Project directory"), LAMBDA v1 :
    IF ~v1.ok THEN Raise(v1.st, FNF, "Project directory not found", <<project_dir>>) ELSE
    Bind(validate_path_exists(v1.st, data_dir, TRUE, "Data directory"), LAMBDA v2 :
    IF ~v2.ok THEN Raise(v2.st, FNF, "Data directory not found", <<data_dir>>) ELSE
    Bind(validate_path_exists(v2.st, dataset_dir, TRUE, "Dataset directory"), LAMBDA v3 :
    IF ~v3.ok THEN Raise(v3.st, FNF, "Dataset directory not found", <<dataset_dir>>) ELSE
    Bind(validate_path_exists(v3.st, records_dir, TRUE, "Records directory"), LAMBDA v4 :
    IF ~v4.ok THEN Raise(v4.st, FNF, "Records directory not found", <<records_dir>>) ELSE
    Bind(validate_path_exists(v4.st, metadata_file, FALSE, "Metadata file"), LAMBDA v5 :
    IF ~v5.ok THEN Raise(v5.st, FNF, "Metadata file not found", <<metadata_file>>) ELSE
    Bind(validate_path_exists(v5.st, code_file, FALSE, "Code file"), LAMBDA v6 :
    IF ~v6.ok THEN Raise(v6.st, FNF, "Code file not found", <<code_file>>) ELSE
    Return(Logged(v6.st, "INFO", "find_csv_dir_files_china",
                  <<"Successfully validated all paths">>, <<>>),
           <<records_dir, metadata_file, code_file>>)))))))

(***************************************************************************)
(* find_csv_dir_files_ptb_xl                                               *)
(***************************************************************************)
\* the step as it would be if records_found were set outside the if
NoteFound_unconditional(v, by, msg, path) ==
    [ok |-> TRUE,
     st |-> IF v.ok THEN Logged(v.st, "INFO", by, <<msg>>, <<path>>) ELSE v.st]

\* if validate_path_exists(...): records_found = True; logging.info(...)
NoteFound(v, by, msg, path) ==
    [ok |-> v.ok,
     st |-> IF v.ok THEN Logged(v.st, "INFO", by, <<msg>>, <<path>>) ELSE v.st]

find_csv_dir_files_ptb_xl(st0, project_dir) ==
    LET data_dir       == Join(project_dir, "data")
        dataset_dir    == Join(data_dir, "ptb_xl")
        records100_dir == Join(dataset_dir, "records100")
        records500_dir == Join(dataset_dir, "records500")
        metadata_file  == Join(dataset_dir, "ptbxl_database.csv")
        code_file      == Join(dataset_dir, "scp_statements.csv")
        by == "find_csv_dir_files_ptb_xl"
    IN
    Bind(validate_path_exists(st0, project_dir, TRUE, "Project directory"), LAMBDA v1 :
    IF ~v1.ok THEN Raise(v1.st, FNF, "Project directory not found", <<project_dir>>) ELSE
    Bind(validate_path_exists(v1.st, data_dir, TRUE, "Data directory"), LAMBDA v2 :
    IF ~v2.ok THEN Raise(v2.st, FNF, "Data directory not found", <<data_dir>>) ELSE
    Bind(validate_path_exists(v2.st, dataset_dir, TRUE, "Dataset directory"), LAMBDA v3 :
    IF ~v3.ok THEN Raise(v3.st, FNF, "Dataset directory not found", <<dataset_dir>>) ELSE
    Bind(NoteFound(validate_path_exists(v3.st, records100_dir, TRUE, "Records100 directory"),
                   by, "Found low resolution records", records100_dir), LAMBDA v4 :
    Bind(NoteFound(validate_path_exists(v4.st, records500_dir, TRUE, "Records500 directory"),
                   by, "Found high resolution records", records500_dir), LAMBDA v5 :
    Bind(v4.ok \/ v5.ok, LAMBDA records_found :
    IF ~records_found
    THEN Raise(v5.st, FNF, "No record directories found",
               <<dataset_dir, records100_dir, records500_dir>>) ELSE
    Bind(validate_path_exists(v5.st, metadata_file, FALSE, "Metadata file"), LAMBDA v6 :
    IF ~v6.ok THEN Raise(v6.st, FNF, "Metadata file not found", <<metadata_file>>) ELSE
    Bind(validate_path_exists(v6.st, code_file, FALSE, "Code file"), LAMBDA v7 :
    IF ~v7.ok THEN Raise(v7.st, FNF, "Code file not found", <<code_file>>) ELSE
    Return(Logged(v7.st, "INFO", by, <<"Successfully validated all paths">>, <<>>),
           <<records100_dir, records500_dir, metadata_file, code_file>>)))))))))

(***************************************************************************)
(* find_dirs_mit_bih                                                       *)
(***************************************************************************)
\* the resolver as it would be if the fallback returned mit_bih/ in place of x_mitdb
find_dirs_mit_bih_substituted(st0, project_dir) ==
    LET data_dir      == Join(project_dir, "data")
        mit_bih_dir   == Join(data_dir, "mit_bih")
        x_mit_bih_dir == Join(mit_bih_dir, "x_mitdb")
        by == "find_dirs_mit_bih"
        Success(st) ==
            Return(Logged(st, "INFO", by,
                          <<"Successfully validated MIT-BIH dataset paths">>, <<>>),
                   <<mit_bih_dir, x_mit_bih_dir>>)
    IN
    Bind(validate_path_exists(st0, project_dir, TRUE, "Project directory"), LAMBDA v1 :
    IF ~v1.ok THEN Raise(v1.st, FNF, "Project directory not found", <<project_dir>>) ELSE
    Bind(validate_path_exists(v1.st, data_dir, TRUE, "Data directory"), LAMBDA v2 :
    IF ~v2.ok THEN Raise(v2.st, FNF, "Data directory not found", <<data_dir>>) ELSE
    Bind(validate_path_exists(v2.st, mit_bih_dir, TRUE, "MIT-BIH directory"), LAMBDA v3 :
    IF ~v3.ok THEN Raise(v3.st, FNF, "MIT-BIH directory not found", <<mit_bih_dir>>) ELSE
    Bind(validate_path_exists(v3.st, x_mit_bih_dir, TRUE, "X-MITDB directory"), LAMBDA v4 :
    IF v4.ok THEN Success(v4.st) ELSE
    Bind(Touched(Logged(Logged(v4.st,
                               "WARNING", by, <<"X-MITDB directory not found">>,
                               <<x_mit_bih_dir>>),
                        "INFO", by, <<"Checking MIT-BIH root directory for files...">>, <<>>),
                 "glob", mit_bih_dir), LAMBDA w :
    Bind(glob(w.fs, mit_bih_dir), LAMBDA files :
    IF files = {}
    THEN Raise(w, FNF, "No files found in MIT-BIH directory", <<mit_bih_dir>>) ELSE
    Return(Logged(LoggedCount(w, "INFO", by, <<"Found files/directories">>,
                              <<mit_bih_dir>>, Cardinality(files)),
                  "INFO", by, <<"Successfully validated MIT-BIH dataset paths">>, <<>>),
           <<mit_bih_dir, mit_bih_dir>>)))))))

find_dirs_mit_bih(st0, project_dir) ==
    LET data_dir      == Join(project_dir, "data")
        mit_bih_dir   == Join(data_dir, "mit_bih")
        x_mit_bih_dir == Join(mit_bih_dir, "x_mitdb")
        by == "find_dirs_mit_bih"
        Success(st) ==
            Return(Logged(st, "INFO", by,
                          <<"Successfully validated MIT-BIH dataset paths">>, <<>>),
                   <<mit_bih_dir, x_mit_bih_dir>>)
    IN
    Bind(validate_path_exists(st0, project_dir, TRUE, "Project directory"), LAMBDA v1 :
    IF ~v1.ok THEN Raise(v1.st, FNF, "Project directory not found", <<project_dir>>) ELSE
    Bind(validate_path_exists(v1.st, data_dir, TRUE, "Data directory"), LAMBDA v2 :
    IF ~v2.ok THEN Raise(v2.st, FNF, "Data directory not found", <<data_dir>>) ELSE
    Bind(validate_path_exists(v2.st, mit_bih_dir, TRUE, "MIT-BIH directory"), LAMBDA v3 :
    IF ~v3.ok THEN Raise(v3.st, FNF, "MIT-BIH directory not found", <<mit_bih_dir>>) ELSE
    Bind(validate_path_exists(v3.st, x_mit_bih_dir, TRUE, "X-MITDB directory"), LAMBDA v4 :
    IF v4.ok THEN Success(v4.st) ELSE
    Bind(Touched(Logged(Logged(v4.st,
                               "WARNING", by, <<"X-MITDB directory not found">>,
                               <<x_mit_bih_dir>>),
                        "INFO", by, <<"Checking MIT-BIH root directory for files...">>, <<>>),
                 "glob", mit_bih_dir), LAMBDA w :
    Bind(glob(w.fs, mit_bih_dir), LAMBDA files :
    IF files = {}
    THEN Raise(w, FNF, "No files found in MIT-BIH directory", <<mit_bih_dir>>) ELSE
    Success(LoggedCount(w, "INFO", by, <<"Found files/directories">>,
                        <<mit_bih_dir>>, Cardinality(files)))))))))

(***************************************************************************)
(* Dataset names and str.lower().                                          *)
(***************************************************************************)
LowerTable ==
    ("A" :> "a") @@ ("B" :> "b") @@ ("C" :> "c") @@ ("H" :> "h") @@ ("I" :> "i")
    @@ ("K" :> "k") @@ ("L" :> "l") @@ ("M" :> "m") @@ ("N" :> "n") @@ ("O" :> "o")
    @@ ("P" :> "p") @@ ("T" :> "t") @@ ("U" :> "u") @@ ("W" :> "w") @@ ("X" :> "x")

LowerChar(c) == IF c \in DOMAIN LowerTable THEN LowerTable[c] ELSE c

\* lower as it would be if the name were compared as given
lower_as_given(s) == s

lower(s) == [i \in 1..Len(s) |-> LowerChar(s[i])]

UpperChar(c) ==
    IF \E u \in DOMAIN LowerTable : LowerTable[u] = c
    THEN CHOOSE u \in DOMAIN LowerTable : LowerTable[u] = c
    ELSE c

china == <<"c", "h", "i", "n", "a">>

ptb_xl == <<"p", "t", "b", "_", "x", "l">>

mit_bih == <<"m", "i", "t", "_", "b", "i", "h">>

KnownNames == {china, ptb_xl, mit_bih}

\* the spelling of a name with the characters at the positions U in upper case
Spell(base, U) == [i \in 1..Len(base) |-> IF i \in U THEN UpperChar(base[i]) ELSE base[i]]

CasePatterns(base) ==
    {{}, 1..Len(base), {1}, {i \in 1..Len(base) : i % 2 = 0}}

Spellings(base) == {Spell(base, U) : U \in CasePatterns(base)}

UnknownNames ==
    {<<"u", "n", "k", "n", "o", "w", "n">>,
     <<>>,
     <<"c", "h", "i", "n", "a", " ">>,
     <<"P", "T", "B", "X", "L">>,
     <<"m", "i", "t", "-", "b", "i", "h">>}

DatasetNames == UNION {Spellings(b) : b \in KnownNames} \cup UnknownNames

(***************************************************************************)
(* safe_find_paths                                                         *)
(***************************************************************************)
\* the handler as it would be if it re-raised without logging
LogAndReraise_silent(r, dataset_name) == r

\* except (FileNotFoundError, ValueError) as e: logging.error(...); raise
LogAndReraise(r, dataset_name) ==
    IF r.outcome.kind = "raise" /\ r.outcome.exc \in {FNF, "ValueError"}
    THEN [st |-> Logged(r.st, "ERROR", "safe_find_paths",
                        <<"Failed to find paths for dataset", dataset_name, r.outcome.msg>>,
                        r.outcome.about),
          outcome |-> r.outcome]
    ELSE r

safe_find_paths(st0, dataset_name, project_dir) ==
    Bind(IF lower(dataset_name) = china
         THEN find_csv_dir_files_china(st0, project_dir)
         ELSE IF lower(dataset_name) = ptb_xl
         THEN find_csv_dir_files_ptb_xl(st0, project_dir)
         ELSE IF lower(dataset_name) = mit_bih
         THEN find_dirs_mit_bih(st0, project_dir)
         ELSE Raise(st0, "ValueError", "Unknown dataset name", <<dataset_name>>),
         LAMBDA r : LogAndReraise(r, dataset_name))

(***************************************************************************)
(* Calls.                                                                  *)
(***************************************************************************)
NoOutcome == [kind |-> "none", value |-> <<>>, exc |-> "", msg |-> "", about |-> <<>>]

MkCall(op, dataset_name, project_dir, path, isdir) ==
    [op |-> op, dataset_name |-> dataset_name, project_dir |-> project_dir,
     path |-> path, is_dir |-> isdir]

NoCall == MkCall("none", <<>>, <<>>, <<>>, TRUE)

\* the paths the validator is called on directly
ValidatorPaths ==
    {Proj, Join(Proj, "data"),
     Join(Join(Join(Proj, "data"), "china_12_lead"), "metadata.csv"),
     Join(Join(Join(Proj, "data"), "mit_bih"), "stray"),
     Join(Alt, "data"),
     <<"nowhere">>}

Run(c, f) ==
    IF c.op = "validate_path_exists"
    THEN Bind(validate_path_exists(Start(f), c.path, c.is_dir, "Path"),
              LAMBDA v : Return(v.st, v.ok))
    ELSE IF c.op = "find_csv_dir_files_china"
    THEN find_csv_dir_files_china(Start(f), c.project_dir)
    ELSE IF c.op = "find_csv_dir_files_ptb_xl"
    THEN find_csv_dir_files_ptb_xl(Start(f), c.project_dir)
    ELSE IF c.op = "find_dirs_mit_bih"
    THEN find_dirs_mit_bih(Start(f), c.project_dir)
    ELSE safe_find_paths(Start(f), c.dataset_name, c.project_dir)

Execute(c) ==
    \E r \in {Run(c, fs)} :
        /\ call' = c
        /\ outcome' = r.outcome
        /\ log' = r.st.log
        /\ checked' = r.st.checked
        /\ fs' = r.st.fs

Idle == call.op = "none"

CallValidate ==
    /\ Idle
    /\ \E path \in ValidatorPaths, isdir \in BOOLEAN :
          Execute(MkCall("validate_path_exists", <<>>, <<>>, path, isdir))

CallChina ==
    /\ Idle
    /\ \E project_dir \in ProjectDirs :
          Execute(MkCall("find_csv_dir_files_china", <<>>, project_dir, <<>>, TRUE))

CallPtbXl ==
    /\ Idle
    /\ \E project_dir \in ProjectDirs :
          Execute(MkCall("find_csv_dir_files_ptb_xl", <<>>, project_dir, <<>>, TRUE))

CallMitBih ==
    /\ Idle
    /\ \E project_dir \in ProjectDirs :
          Execute(MkCall("find_dirs_mit_bih", <<>>, project_dir, <<>>, TRUE))

CallSafeFindPaths ==
    /\ Idle
    /\ \E dataset_name \in DatasetNames, project_dir \in ProjectDirs :
          Execute(MkCall("safe_find_paths", dataset_name, project_dir, <<>>, TRUE))

\* the caller repeats the call it has just made, with the same arguments
Repeat ==
    /\ ~Idle
    /\ Execute(call)

\* the caller is done with the result
Finish ==
    /\ ~Idle
    /\ call' = NoCall
    /\ outcome' = NoOutcome
    /\ log' = <<>>
    /\ checked' = <<>>
    /\ UNCHANGED fs

(***************************************************************************)
(* The environment: entries of the examined project appear and disappear   *)
(* between calls.                                                          *)
(***************************************************************************)
AllowedKinds(path) ==
    IF path = Join(Join(Join(Proj, "data"), "mit_bih"), "stray")
    THEN {"file", "dir", "other"}
    ELSE IF Len(path) = 5 THEN {"file"}
    ELSE {"file", "dir"}

EnvCreate ==
    /\ Idle
    /\ \E path \in TreePaths(Proj) :
          /\ fs[path] = "absent"
          /\ Len(path) > 1 => is_dir(fs, Parent(path))
          /\ \E k \in AllowedKinds(path) :
                /\ fs' = [fs EXCEPT ![path] = k]
                /\ Cardinality(Populated(fs')) <= MaxPopulated
    /\ UNCHANGED <<call, outcome, log, checked>>

EnvRemove ==
    /\ Idle
    /\ \E path \in TreePaths(Proj) :
          /\ fs[path] # "absent"
          /\ glob(fs, path) = {}
          /\ fs' = [fs EXCEPT ![path] = "absent"]
    /\ UNCHANGED <<call, outcome, log, checked>>

Init ==
    /\ fs = EmptyLayout(Proj) @@ FullLayout(Alt)
    /\ call = NoCall
    /\ outcome = NoOutcome
    /\ log = <<>>
    /\ checked = <<>>

Next ==
    \/ CallValidate
    \/ CallChina
    \/ CallPtbXl
    \/ CallMitBih
    \/ CallSafeFindPaths
    \/ Repeat
    \/ Finish
    \/ EnvCreate
    \/ EnvRemove

Spec == Init /\ [][Next]_vars

TypeOK ==
    /\ WellFormed(fs)
    /\ DOMAIN fs = AllPaths
    /\ \A p \in DOMAIN fs : fs[p] \in Kinds
    /\ outcome.kind \in {"none", "return", "raise"}

(***************************************************************************)
(* Vocabulary of the properties: the call that has just run, the layout    *)
(* it ran against, and what it did.                                        *)
(***************************************************************************)
Root == call.project_dir

At(rel) == Root \o rel

K(rel) == KindOf(fs, At(rel))

UpperLower ==
    {<<"A", "a">>, <<"B", "b">>, <<"C", "c">>, <<"H", "h">>, <<"I", "i">>,
     <<"L", "l">>, <<"M", "m">>, <<"N", "n">>, <<"P", "p">>, <<"T", "t">>,
     <<"X", "x">>}

\* a is b up to the case of its letters
SameIgnoringCase(a, b) ==
    /\ Len(a) = Len(b)
    /\ \A i \in 1..Len(a) :
          \/ a[i] = b[i]
          \/ <<a[i], b[i]>> \in UpperLower
          \/ <<b[i], a[i]>> \in UpperLower

\* the dataset whose resolver the call runs, "" when it runs none
Target ==
    IF call.op = "find_csv_dir_files_china" THEN "china"
    ELSE IF call.op = "find_csv_dir_files_ptb_xl" THEN "ptb_xl"
    ELSE IF call.op = "find_dirs_mit_bih" THEN "mit_bih"
    ELSE IF call.op # "safe_find_paths" THEN ""
    ELSE IF SameIgnoringCase(call.dataset_name, china) THEN "china"
    ELSE IF SameIgnoringCase(call.dataset_name, ptb_xl) THEN "ptb_xl"
    ELSE IF SameIgnoringCase(call.dataset_name, mit_bih) THEN "mit_bih"
    ELSE ""

Direct == call.op \in {"find_csv_dir_files_china", "find_csv_dir_files_ptb_xl",
                       "find_dirs_mit_bih"}

Returned == outcome.kind = "return"

Raised(exc) == outcome.kind = "raise" /\ outcome.exc = exc /\ outcome.value = <<>>

\* the documented order of validation, as <<relative path, expected kind>>
Chain(target) ==
    IF target = "china"
    THEN << <<<<>>, "dir">>, <<<<"data">>, "dir">>,
            <<<<"data", "china_12_lead">>, "dir">>,
            <<<<"data", "china_12_lead", "records">>, "dir">>,
            <<<<"data", "china_12_lead", "metadata.csv">>, "file">>,
            <<<<"data", "china_12_lead", "code.csv">>, "file">> >>
    ELSE IF target = "ptb_xl"
    THEN << <<<<>>, "dir">>, <<<<"data">>, "dir">>,
            <<<<"data", "ptb_xl">>, "dir">>,
            <<<<"data", "ptb_xl", "records100">>, "dir">>,
            <<<<"data", "ptb_xl", "records500">>, "dir">>,
            <<<<"data", "ptb_xl", "ptbxl_database.csv">>, "file">>,
            <<<<"data", "ptb_xl", "scp_statements.csv">>, "file">> >>
    ELSE IF target = "mit_bih"
    THEN << <<<<>>, "dir">>, <<<<"data">>, "dir">>,
            <<<<"data", "mit_bih">>, "dir">>,
            <<<<"data", "mit_bih", "x_mitdb">>, "dir">> >>
    ELSE <<>>

\* the validations the call made, in order
Validated == SelectSeq(checked, LAMBDA e : e.op = "validate")

\* the i-th path of the chain is missing or of the wrong kind
Fails(target, i) == K(Chain(target)[i][1]) # Chain(target)[i][2]

\* the call validated a prefix of the chain, in the documented order
InOrder(target) ==
    /\ Len(Validated) <= Len(Chain(target))
    /\ \A i \in 1..Len(Validated) : Validated[i].path = At(Chain(target)[i][1])

\* the links of the chain whose failure alone ends the call
Strict(target) ==
    IF target = "china" THEN 1..6
    ELSE IF target = "ptb_xl" THEN {1, 2, 3, 6, 7}
    ELSE IF target = "mit_bih" THEN {1, 2, 3}
    ELSE {}

\* the first validation of the call that failed, 0 when none did
FirstFailure(target) ==
    IF \E i \in 1..Len(Validated) : Fails(target, i)
    THEN CHOOSE i \in 1..Len(Validated) :
            Fails(target, i) /\ \A j \in 1..(i - 1) : ~Fails(target, j)
    ELSE 0

\* the validations of the call that failed, in order
FailedValidations(target) ==
    SelectSeq(Validated,
              LAMBDA e : \E i \in 1..Len(Chain(target)) :
                            e.path = At(Chain(target)[i][1]) /\ Fails(target, i))

ErrorLines == SelectSeq(log, LAMBDA l : l.level = "ERROR")

ValidatorErrors == SelectSeq(log, LAMBDA l : l.by = "validate_path_exists")

WrapperErrors == SelectSeq(log, LAMBDA l : l.by = "safe_find_paths")

\* the MIT-BIH call listed mit_bih/ after x_mitdb failed its validation
FallbackTaken ==
    /\ Len(checked) = 5
    /\ checked[5] = [op |-> "glob", path |-> At(<<"data", "mit_bih">>)]

(***************************************************************************)
(* C8: validate_path_exists returns true exactly when the path exists and  *)
(* is of the expected kind (a directory when is_dir, a regular file        *)
(* otherwise); in every other case it returns false and logs exactly one   *)
(* error line naming the path; it never raises, and logs nothing when it   *)
(* returns true.                                                           *)
(***************************************************************************)
C8_ValidatorContract ==
    call.op = "validate_path_exists" =>
        /\ Returned
        /\ outcome.value =
              (KindOf(fs, call.path) = (IF call.is_dir THEN "dir" ELSE "file"))
        /\ outcome.value => log = <<>>
        /\ ~outcome.value =>
              /\ Len(log) = 1
              /\ log[1].level = "ERROR"
              /\ log[1].about = <<call.path>>

\* an existing regular file was validated as a directory
C8_Witness ==
    /\ call.op = "validate_path_exists"
    /\ call.is_dir
    /\ KindOf(fs, call.path) = "file"
    /\ Returned
    /\ outcome.value = FALSE

(***************************************************************************)
(* C6: on a layout where the project root, data/, data/china_12_lead/ and  *)
(* its records/ are directories and its metadata.csv and code.csv are      *)
(* regular files, the China resolver returns exactly (records,             *)
(* metadata.csv, code.csv) under the given root, in that order; and every  *)
(* successful return implies that all six paths exist with that kind.      *)
(***************************************************************************)
ChinaComplete ==
    /\ K(<<>>) = "dir"
    /\ K(<<"data">>) = "dir"
    /\ K(<<"data", "china_12_lead">>) = "dir"
    /\ K(<<"data", "china_12_lead", "records">>) = "dir"
    /\ K(<<"data", "china_12_lead", "metadata.csv">>) = "file"
    /\ K(<<"data", "china_12_lead", "code.csv">>) = "file"

C6_ChinaReturn ==
    call.op = "find_csv_dir_files_china" =>
        /\ Returned <=> ChinaComplete
        /\ Returned =>
              outcome.value = << At(<<"data", "china_12_lead", "records">>),
                                 At(<<"data", "china_12_lead", "metadata.csv">>),
                                 At(<<"data", "china_12_lead", "code.csv">>) >>

\* the China resolver returned for the project the environment built
C6_Witness ==
    /\ call.op = "find_csv_dir_files_china"
    /\ Root = Proj
    /\ ChinaComplete
    /\ Returned

(***************************************************************************)
(* C3: with the project root, data/ and data/ptb_xl/ directories and       *)
(* ptbxl_database.csv and scp_statements.csv regular files, the PTB-XL     *)
(* resolver succeeds exactly when records100/ or records500/ is a          *)
(* directory, and raises a missing-path error when neither is.  Both       *)
(* records directories are validated whatever the outcome of the first,    *)
(* and a missing csv file fails the call even when a records directory     *)
(* was found.                                                              *)
(***************************************************************************)
PtbDirs ==
    /\ K(<<>>) = "dir"
    /\ K(<<"data">>) = "dir"
    /\ K(<<"data", "ptb_xl">>) = "dir"

PtbCsvFiles ==
    /\ K(<<"data", "ptb_xl", "ptbxl_database.csv">>) = "file"
    /\ K(<<"data", "ptb_xl", "scp_statements.csv">>) = "file"

PtbSomeRecords ==
    \/ K(<<"data", "ptb_xl", "records100">>) = "dir"
    \/ K(<<"data", "ptb_xl", "records500">>) = "dir"

C3_PtbRecords ==
    (call.op = "find_csv_dir_files_ptb_xl" /\ PtbDirs) =>
        /\ PtbCsvFiles => (Returned <=> PtbSomeRecords)
        /\ ~PtbSomeRecords => Raised(FNF)
        /\ Len(Validated) >= 5
        /\ Validated[4].path = At(<<"data", "ptb_xl", "records100">>)
        /\ Validated[5].path = At(<<"data", "ptb_xl", "records500">>)
        /\ ~PtbCsvFiles => Raised(FNF)

\* the PTB-XL resolver succeeded with records500/ only
C3_Witness ==
    /\ call.op = "find_csv_dir_files_ptb_xl"
    /\ PtbDirs
    /\ PtbCsvFiles
    /\ K(<<"data", "ptb_xl", "records100">>) = "absent"
    /\ K(<<"data", "ptb_xl", "records500">>) = "dir"
    /\ Returned

(***************************************************************************)
(* C4: with the project root and data/ directories, the MIT-BIH resolver   *)
(* (1) succeeds and returns the x_mitdb path when mit_bih/x_mitdb/ is      *)
(* present and non-empty; (2) succeeds through the fallback when x_mitdb   *)
(* is absent and mit_bih/ holds at least one entry; (3) raises a           *)
(* missing-path error when mit_bih/ is absent, or is empty with no         *)
(* x_mitdb/.                                                               *)
(***************************************************************************)
MitRootData == K(<<>>) = "dir" /\ K(<<"data">>) = "dir"

MitPair == << At(<<"data", "mit_bih">>), At(<<"data", "mit_bih", "x_mitdb">>) >>

C4_MitBih ==
    (call.op = "find_dirs_mit_bih" /\ MitRootData) =>
        /\ (/\ K(<<"data", "mit_bih", "x_mitdb">>) = "dir"
            /\ K(<<"data", "mit_bih", "x_mitdb", "100.dat">>) # "absent")
              => (Returned /\ outcome.value = MitPair /\ ~FallbackTaken)
        /\ (/\ K(<<"data", "mit_bih">>) = "dir"
            /\ K(<<"data", "mit_bih", "x_mitdb">>) = "absent"
            /\ K(<<"data", "mit_bih", "stray">>) # "absent")
              => (Returned /\ FallbackTaken)
        /\ K(<<"data", "mit_bih">>) = "absent" => Raised(FNF)
        /\ (/\ K(<<"data", "mit_bih">>) = "dir"
            /\ K(<<"data", "mit_bih", "x_mitdb">>) = "absent"
            /\ K(<<"data", "mit_bih", "stray">>) = "absent")
              => Raised(FNF)

\* the MIT-BIH resolver succeeded through the fallback
C4_Witness ==
    /\ call.op = "find_dirs_mit_bih"
    /\ Root = Proj
    /\ K(<<"data", "mit_bih", "x_mitdb">>) = "absent"
    /\ K(<<"data", "mit_bih", "stray">>) = "file"
    /\ FallbackTaken
    /\ Returned

(***************************************************************************)
(* C10: in the MIT-BIH resolver, with the project root, data/ and mit_bih/ *)
(* directories, an x_mitdb that exists but is no directory fails its       *)
(* validation, the fallback is taken, and the call always succeeds with    *)
(* (mit_bih, mit_bih/x_mitdb), whose second component is an existing       *)
(* non-directory.  In general the fallback succeeds exactly when mit_bih/  *)
(* holds an entry of any kind and name.                                    *)
(***************************************************************************)
MitDirs == MitRootData /\ K(<<"data", "mit_bih">>) = "dir"

PtbTuple ==
    << At(<<"data", "ptb_xl", "records100">>),
       At(<<"data", "ptb_xl", "records500">>),
       At(<<"data", "ptb_xl", "ptbxl_database.csv">>),
       At(<<"data", "ptb_xl", "scp_statements.csv">>) >>

FixedTuples ==
    /\ (call.op = "find_csv_dir_files_ptb_xl" /\ Returned) =>
          /\ outcome.value = PtbTuple
          /\ \A i \in 1..2 :
                K(Chain("ptb_xl")[3 + i][1]) = "absent"
                    => ~exists(fs, outcome.value[i])
    /\ (call.op = "find_dirs_mit_bih" /\ Returned) => outcome.value = MitPair

DirectOp(target) ==
    IF target = "china" THEN "find_csv_dir_files_china"
    ELSE IF target = "ptb_xl" THEN "find_csv_dir_files_ptb_xl"
    ELSE "find_dirs_mit_bih"

LowerName(target) ==
    IF target = "china" THEN china
    ELSE IF target = "ptb_xl" THEN ptb_xl
    ELSE mit_bih

C7_CaseInsensitiveDispatch ==
    call.op = "safe_find_paths" =>
        IF Target # ""
        THEN /\ outcome =
                  Run(MkCall("safe_find_paths", LowerName(Target), Root, <<>>, TRUE),
                      fs).outcome
             /\ outcome = Run(MkCall(DirectOp(Target), <<>>, Root, <<>>, TRUE), fs).outcome
             /\ checked # <<>>
        ELSE /\ Raised("ValueError")
             /\ outcome.about = <<call.dataset_name>>
             /\ checked = <<>>

\* CHINA, in upper case, resolved the China dataset
C7_Witness ==
    /\ call.op = "safe_find_paths"
    /\ call.dataset_name = <<"C", "H", "I", "N", "A">>
    /\ Returned
    /\ Len(outcome.value) = 3

(***************************************************************************)
(* C2: every failing call is accompanied by exactly one error log line,    *)
(* naming the path or argument that failed, before the error propagates.   *)
(***************************************************************************)
Failing == call.op # "none" /\ outcome.kind = "raise"

\* C2 as stated: one error line per failing call
C2_AsStated ==
    Failing =>
        /\ Len(ErrorLines) = 1
        /\ ErrorLines[1].about = outcome.about

\* C2 as amended: a failing safe_find_paths call logs exactly one error
\* line of its own, as its last log line, naming what the error names, and
\* re-raises the error unchanged; before it, every failed path validation
\* has logged an error line of its own, so that an invalid-argument failure
\* carries one error line and a missing-path failure two or three.  A
\* failing resolver called directly carries the validations' lines alone,
\* one or two.
C2_ErrorLines ==
    /\ (Failing /\ call.op = "safe_find_paths") =>
          /\ Len(WrapperErrors) = 1
          /\ log[Len(log)].by = "safe_find_paths"
          /\ log[Len(log)].level = "ERROR"
          /\ log[Len(log)].about = outcome.about
          /\ Len(ErrorLines) = 1 + Len(ValidatorErrors)
          /\ outcome.exc = "ValueError" =>
                /\ Len(ErrorLines) = 1
                /\ outcome.about = <<call.dataset_name>>
          /\ outcome.exc = FNF =>
                /\ Len(ErrorLines) \in {2, 3}
                /\ outcome = Run(MkCall(DirectOp(Target), <<>>, Root, <<>>, TRUE),
                                 fs).outcome
                /\ Len(ValidatorErrors) = Len(FailedValidations(Target))
                /\ \A i \in 1..Len(ValidatorErrors) :
                      ValidatorErrors[i].about = <<FailedValidations(Target)[i].path>>
    /\ (Failing /\ Direct) =>
          /\ Len(ErrorLines) \in {1, 2}
          /\ ErrorLines = ValidatorErrors
          /\ Len(ValidatorErrors) = Len(FailedValidations(Target))
          /\ \A i \in 1..Len(ValidatorErrors) :
                ValidatorErrors[i].about = <<FailedValidations(Target)[i].path>>

\* a missing-path failure of the wrapper carried three error lines
C2_Witness ==
    /\ Failing
    /\ call.op = "safe_find_paths"
    /\ outcome.exc = FNF
    /\ Len(ErrorLines) = 3
    /\ Len(WrapperErrors) = 1

(***************************************************************************)
(* C1: each resolver validates its paths in the documented order, and the  *)
(* first path of the chain that is missing or of the wrong kind ends the   *)
(* call with a missing-path error naming exactly that path, with no later  *)
(* path checked and no tuple returned.                                     *)
(***************************************************************************)
\* C1 as stated, for the calls that fail
C1_AsStated ==
    (Target # "" /\ outcome.kind = "raise") =>
        /\ InOrder(Target)
        /\ Raised(FNF)
        /\ FirstFailure(Target) # 0
        /\ outcome.about = <<Validated[FirstFailure(Target)].path>>
        /\ Len(checked) = FirstFailure(Target)

\* C1 as amended: the paths are validated in the documented order.  A
\* failure of the project root, of data/, of the dataset directory, of the
\* China records/ or of any csv file ends the call with a missing-path
\* error naming exactly that path, with nothing checked after it and no
\* tuple returned.  A failure of PTB-XL records100/ does not end the call:
\* records500/ is validated next, and only when both fail does the call
\* raise, naming the dataset directory and both records paths.  A failure
\* of MIT-BIH x_mitdb does not end the call: mit_bih/ is listed next, and
\* only when the listing is empty does the call raise, naming mit_bih/.
C1_FirstFailure ==
    Target # "" =>
        /\ InOrder(Target)
        /\ Returned => Len(Validated) = Len(Chain(Target))
        /\ \A i \in 1..Len(Validated) :
              (Fails(Target, i) /\ i \in Strict(Target)) =>
                  /\ Raised(FNF)
                  /\ outcome.about = <<At(Chain(Target)[i][1])>>
                  /\ Len(checked) = i
        /\ outcome.kind = "raise" => (Raised(FNF) /\ FirstFailure(Target) # 0)
        /\ (Target = "ptb_xl" /\ Len(Validated) >= 4 /\ Fails(Target, 4)) =>
              /\ Len(Validated) >= 5
              /\ Fails(Target, 5) =>
                    /\ Raised(FNF)
                    /\ outcome.about = <<At(<<"data", "ptb_xl">>),
                                         At(<<"data", "ptb_xl", "records100">>),
                                         At(<<"data", "ptb_xl", "records500">>)>>
                    /\ Len(checked) = 5
        /\ (Target = "mit_bih" /\ Len(Validated) = 4) =>
              /\ Fails(Target, 4) <=> FallbackTaken
              /\ ~Fails(Target, 4) => (Returned /\ Len(checked) = 4)
              /\ Fails(Target, 4) =>
                    IF glob(fs, At(<<"data", "mit_bih">>)) = {}
                    THEN Raised(FNF) /\ outcome.about = <<At(<<"data", "mit_bih">>)>>
                    ELSE Returned

\* the China resolver stopped at a metadata.csv that is a directory
C1_Witness ==
    /\ call.op = "find_csv_dir_files_china"
    /\ K(<<"data", "china_12_lead", "records">>) = "dir"
    /\ K(<<"data", "china_12_lead", "metadata.csv">>) = "dir"
    /\ Raised(FNF)
    /\ outcome.about = <<At(<<"data", "china_12_lead", "metadata.csv">>)>>
    /\ Len(checked) = 5

(***************************************************************************)
(* C9: no call changes the filesystem, and a call repeated with the same   *)
(* arguments, with no change of the filesystem in between, has the same    *)
(* outcome.                                                                *)
(***************************************************************************)
C9_NoEffectIdempotent ==
    [][/\ call'.op # "none" => fs' = fs
       /\ (call.op # "none" /\ call' = call) =>
             (outcome' = outcome /\ log' = log /\ checked' = checked)]_vars

\* a wrapper call failed on a project whose dataset directory is missing,
\* and the directory is still missing
C9_Witness ==
    /\ call.op = "safe_find_paths"
    /\ Target = "ptb_xl"
    /\ Root = Proj
    /\ K(<<"data">>) = "dir"
    /\ K(<<"data", "ptb_xl">>) = "absent"
    /\ Raised(FNF)

====
